---- MODULE Spec2Model ----
(***************************************************************************)
(* LogiFlow API (src/main.py, src/schemas.py): freight quotes, shipment    *)
(* bookings and tracking events kept in a document store.                  *)
(*                                                                         *)
(* Numbers.  weight_kg and volume_cbm are floats in the source; the model  *)
(* carries them as integers in hundredths (1000 is 10.00 kg), price_usd in *)
(* cents, and the unrounded price in units of 1/10000 USD.  For inputs     *)
(* with at most two decimals the unrounded price is never within 0.0002    *)
(* of a rounding tie, so the decimal arithmetic agrees with the float one. *)
(*                                                                         *)
(* The module `database` (db, create_document, get_documents) is imported  *)
(* by src/main.py but is not part of the sources; it is modelled from its  *)
(* contract in the specification (section 4.1).                            *)
(***************************************************************************)
EXTENDS Integers, Sequences, FiniteSets, TLC

\* ------------------------------------------------------------------ bounds
MaxBookings == 2     \* POST /api/shipments requests, all possibly concurrent
MaxQuotes == 1       \* quotes persisted before the model stops quoting
MaxEvents == 4       \* tracking events of a store read by TrackSpec
MaxStamp == 3        \* timestamps of a store read by TrackSpec

\* The booking requests, numbered in the order they arrive.
Bookings == 1..MaxBookings

\* --------------------------------------------------------------- constants
DefaultLimit == 50   \* list_quotes / list_shipments: limit: int = 50
NoTimestamp == -1    \* e.get("timestamp") of a document without the field

VARIABLES db, store, clock, pc, local, resp

vars == <<db, store, clock, pc, local, resp>>

\* ------------------------------------------------------------------ inputs
Origins == {"SHA", "RTM"}
KnownModes == {"sea", "road", "air"}
Modes == KnownModes \cup {"unknown-value"}

\* Tracking numbers random.choices can draw: two of the 36^8 strings.
TrackingNumbers == {"LGF-AAAAAAAA", "LGF-7Q2ZK9XB"}

\* QuoteRequest bodies (well typed; the values are unconstrained floats).
QuoteRequest(origins, modes, weights, volumes) ==
  [origin : origins, destination : {"LAX"}, mode : modes,
   weight_kg : weights, volume_cbm : volumes]

\* Bodies used by the service specification: a valid one from each origin,
\* one without weight, one with a negative volume, one of an unknown mode.
SmallRequests ==
  { p \in QuoteRequest(Origins, {"sea", "unknown-value"}, {0, 1000}, {-100, 200}) :
      \/ p.mode = "sea" /\ p.weight_kg > 0 /\ p.volume_cbm > 0
      \/ p.origin = "SHA" /\ p.mode = "sea" /\ (p.weight_kg > 0 \/ p.volume_cbm > 0)
      \/ p.origin = "SHA" /\ p.weight_kg > 0 /\ p.volume_cbm > 0 }

\* Bodies used by the quote-engine specification.
QuoteRequests ==
  QuoteRequest(Origins, Modes, {-500, 1, 1000, 10000}, {0, 3, 200, 500})

\* BookShipmentRequest(QuoteRequest): the quote fields plus the shipper.
BookShipmentRequest(p) ==
  [origin |-> p.origin, destination |-> p.destination, mode |-> p.mode,
   weight_kg |-> p.weight_kg, volume_cbm |-> p.volume_cbm,
   shipper_name |-> "ACME", shipper_email |-> "ops@acme.test"]

BookRequests == { BookShipmentRequest(p) : p \in SmallRequests }

\* ----------------------------------------------------------------- schemas
\* Quote: mode is a Literal, the four numbers are Field(..., gt=0).
QuoteValid(q) ==
  /\ q.mode \in {"air", "sea", "road"}
  /\ q.weight_kg > 0
  /\ q.volume_cbm > 0
  /\ q.price_usd > 0
  /\ q.eta_days > 0

\* Shipment: mode is a Literal, weight and volume are Field(..., gt=0).
ShipmentValid(s) ==
  /\ s.mode \in {"air", "sea", "road"}
  /\ s.weight_kg > 0
  /\ s.volume_cbm > 0
  /\ s.status \in {"created", "booked", "in_transit", "customs",
                   "out_for_delivery", "delivered"}

\* ------------------------------------------------------------------- store
Collections == {"quote", "shipment", "trackingevent"}

EmptyStore == [c \in Collections |-> <<>>]

\* The identifier the store generates for the next document of a collection.
NewId(st, collection_name) == Len(st[collection_name]) + 1

\* A store call works when a connection is configured and the store answers.
Available(ok) == db /\ ok

\* create_document(collection_name, entity) -> id: the entity's fields plus
\* the generated identifier, appended to the collection.
create_document(st, collection_name, data) ==
  [store |-> [st EXCEPT ![collection_name] =
                 Append(@, data @@ [_id |-> NewId(st, collection_name)])],
   id |-> NewId(st, collection_name)]

RECURSIVE Filter(_, _, _)
Filter(docs, key, value) ==
  IF docs = <<>> THEN <<>>
  ELSE IF Head(docs)[key] = value
       THEN <<Head(docs)>> \o Filter(Tail(docs), key, value)
       ELSE Filter(Tail(docs), key, value)

Limit(docs, limit) ==
  IF Len(docs) <= limit THEN docs ELSE SubSeq(docs, 1, limit)

\* get_documents(collection_name, {}, limit): up to limit documents.
get_documents(st, collection_name, limit) == Limit(st[collection_name], limit)

\* get_documents(collection_name, {key: value}): limit defaults to 50.
get_documents_by(st, collection_name, key, value) ==
  Limit(Filter(st[collection_name], key, value), DefaultLimit)

\* --------------------------------------------------------------- responses
\* What a finished request leaves behind: the outcome, the line of the
\* handler at which it ended, and the create_document calls it completed.
Response(op, req, status, body, line, writes) ==
  [op |-> op, req |-> req, status |-> status, body |-> body,
   line |-> line, writes |-> writes]

NoResponse == Response("none", <<>>, "none", <<>>, 0, <<>>)

\* ------------------------------------------------------------ quote engine
\* round(x, 2) for x given in units of 1/10000: nearest cent, ties to even.
round2(x) ==
  LET q == x \div 100
      r == x % 100
  IN  IF r < 50 THEN q
      ELSE IF r > 50 THEN q + 1
      ELSE IF q % 2 = 0 THEN q ELSE q + 1

\* A multiplier table that prices road freight like sea freight.
multipliers_flat(mode) ==
  CASE mode = "air" -> 20
    [] OTHER -> 10

\* multipliers.get(mode, 1.0), in tenths.
multipliers(mode) ==
  CASE mode = "sea" -> 10
    [] mode = "road" -> 12
    [] mode = "air" -> 20
    [] OTHER -> 10

\* {"sea": 21, "road": 7, "air": 3}.get(mode, 14)
eta_days(mode) ==
  CASE mode = "sea" -> 21
    [] mode = "road" -> 7
    [] mode = "air" -> 3
    [] OTHER -> 14

\* base + m * (weight_kg * 0.8 + volume_cbm * 20), rounded, in cents.
price_usd(mode, weight_kg, volume_cbm) ==
  round2(500000 + multipliers(mode) * (weight_kg * 8 + volume_cbm * 200))

\* GET /
read_root ==
  /\ resp' = Response("read_root", <<>>, "ok", "LogiFlow backend running", 23, <<>>)
  /\ UNCHANGED <<db, store, clock, pc, local>>

\* create_quote with the storage error of create_document swallowed: the
\* quote is returned although nothing was written.
create_quote_swallow(payload, ok) ==
  LET quote == [origin |-> payload.origin, destination |-> payload.destination,
                mode |-> payload.mode, weight_kg |-> payload.weight_kg,
                volume_cbm |-> payload.volume_cbm,
                price_usd |-> price_usd(payload.mode, payload.weight_kg,
                                        payload.volume_cbm),
                eta_days |-> eta_days(payload.mode)]
      w == create_document(store, "quote", quote)
  IN  /\ Len(store["quote"]) < MaxQuotes
      /\ IF ~QuoteValid(quote)
         THEN /\ resp' = Response("create_quote", payload, "ValidationError",
                                  <<>>, 83, <<>>)
              /\ store' = store
         ELSE IF ~Available(ok)
         THEN /\ resp' = Response("create_quote", payload, "ok", quote, 93, <<>>)
              /\ store' = store
         ELSE /\ resp' = Response("create_quote", payload, "ok", quote, 93,
                                  <<[collection |-> "quote", id |-> w.id]>>)
              /\ store' = w.store
      /\ UNCHANGED <<db, clock, pc, local>>

\* POST /api/quotes
create_quote(payload, ok) ==
  LET quote == [origin |-> payload.origin, destination |-> payload.destination,
                mode |-> payload.mode, weight_kg |-> payload.weight_kg,
                volume_cbm |-> payload.volume_cbm,
                price_usd |-> price_usd(payload.mode, payload.weight_kg,
                                        payload.volume_cbm),
                eta_days |-> eta_days(payload.mode)]
      w == create_document(store, "quote", quote)
  IN  /\ Len(store["quote"]) < MaxQuotes
      /\ IF ~QuoteValid(quote)
         THEN /\ resp' = Response("create_quote", payload, "ValidationError",
                                  <<>>, 83, <<>>)
              /\ store' = store
         ELSE IF ~Available(ok)
         THEN /\ resp' = Response("create_quote", payload, "StorageUnavailable",
                                  <<>>, 92, <<>>)
              /\ store' = store
         ELSE /\ resp' = Response("create_quote", payload, "ok", quote, 93,
                                  <<[collection |-> "quote", id |-> w.id]>>)
              /\ store' = w.store
      /\ UNCHANGED <<db, clock, pc, local>>

\* The Quote list_quotes rebuilds from a stored document.
QuoteOf(d) ==
  [origin |-> d.origin, destination |-> d.destination, mode |-> d.mode,
   weight_kg |-> d.weight_kg, volume_cbm |-> d.volume_cbm,
   price_usd |-> d.price_usd, eta_days |-> d.eta_days]

\* GET /api/quotes?limit=
list_quotes(limit, ok) ==
  LET docs == get_documents(store, "quote", limit)
      results == [i \in 1..Len(docs) |-> QuoteOf(docs[i])]
  IN  /\ IF ~Available(ok)
         THEN resp' = Response("list_quotes", limit, "StorageUnavailable",
                               <<>>, 97, <<>>)
         ELSE IF \E i \in 1..Len(results) : ~QuoteValid(results[i])
         THEN resp' = Response("list_quotes", limit, "ValidationError",
                               <<>>, 101, <<>>)
         ELSE resp' = Response("list_quotes", limit, "ok", results, 110, <<>>)
      /\ UNCHANGED <<db, store, clock, pc, local>>

\* ---------------------------------------------------------------- list.sort
\* events.sort(key=lambda e: e.get("timestamp")) as CPython sorts a list of
\* fewer than 64 items: find the leading run, reverse it when it descends,
\* then insert the remaining items by binary search.  A comparison with a
\* missing timestamp raises TypeError and ends the sort where it stands.
LtRaises(a, b) == a.timestamp = NoTimestamp \/ b.timestamp = NoTimestamp

Lt(a, b) == a.timestamp < b.timestamp

Reverse(s) == [i \in 1..Len(s) |-> s[Len(s) + 1 - i]]

\* count_run: the length of the run that starts the list; i is the next
\* item to compare with its predecessor.
RECURSIVE count_run(_, _, _)
count_run(s, i, descending) ==
  IF i > Len(s) THEN [n |-> Len(s), raised |-> FALSE]
  ELSE IF LtRaises(s[i], s[i - 1]) THEN [n |-> i - 1, raised |-> TRUE]
  ELSE IF Lt(s[i], s[i - 1]) = descending THEN count_run(s, i + 1, descending)
  ELSE [n |-> i - 1, raised |-> FALSE]

\* The binary search of binarysort: the slot in s[l..r-1] for pivot.
RECURSIVE bisect(_, _, _, _)
bisect(s, pivot, l, r) ==
  IF l >= r THEN [pos |-> l, raised |-> FALSE]
  ELSE LET p == l + ((r - l) \div 2)
       IN  IF LtRaises(pivot, s[p]) THEN [pos |-> l, raised |-> TRUE]
           ELSE IF Lt(pivot, s[p]) THEN bisect(s, pivot, l, p)
           ELSE bisect(s, pivot, p + 1, r)

\* binarysort: s[1..start-1] is sorted; insert s[start], s[start+1], ...
RECURSIVE binarysort(_, _)
binarysort(s, start) ==
  IF start > Len(s) THEN [events |-> s, raised |-> FALSE]
  ELSE LET b == bisect(s, s[start], 1, start)
       IN  IF b.raised THEN [events |-> s, raised |-> TRUE]
           ELSE binarysort(SubSeq(s, 1, b.pos - 1) \o <<s[start]>>
                             \o SubSeq(s, b.pos, start - 1)
                             \o SubSeq(s, start + 1, Len(s)),
                           start + 1)

list_sort(s) ==
  IF Len(s) < 2 THEN [events |-> s, raised |-> FALSE]
  ELSE IF LtRaises(s[2], s[1]) THEN [events |-> s, raised |-> TRUE]
  ELSE LET descending == Lt(s[2], s[1])
           run == count_run(s, 3, descending)
       IN  IF run.raised THEN [events |-> s, raised |-> TRUE]
           ELSE binarysort(IF descending
                           THEN Reverse(SubSeq(s, 1, run.n))
                                  \o SubSeq(s, run.n + 1, Len(s))
                           ELSE s,
                           run.n + 1)

\* ---------------------------------------------------------------- tracking
\* get_tracking without the check for an empty result.
get_tracking_no_404(tracking_number, ok) ==
  LET events == get_documents_by(store, "trackingevent", "tracking_number",
                                 tracking_number)
  IN  /\ IF ~Available(ok)
         THEN resp' = Response("get_tracking", tracking_number,
                               "StorageUnavailable", <<>>, 143, <<>>)
         ELSE resp' = Response("get_tracking", tracking_number, "ok",
                               [tracking_number |-> tracking_number,
                                events |-> list_sort(events).events],
                               151, <<>>)
      /\ UNCHANGED <<db, store, clock, pc, local>>

\* GET /api/track/{tracking_number}
get_tracking(tracking_number, ok) ==
  LET events == get_documents_by(store, "trackingevent", "tracking_number",
                                 tracking_number)
  IN  /\ IF ~Available(ok)
         THEN resp' = Response("get_tracking", tracking_number,
                               "StorageUnavailable", <<>>, 143, <<>>)
         ELSE IF events = <<>>
         THEN resp' = Response("get_tracking", tracking_number, "NotFound",
                               <<>>, 145, <<>>)
         ELSE resp' = Response("get_tracking", tracking_number, "ok",
                               [tracking_number |-> tracking_number,
                                events |-> list_sort(events).events],
                               151, <<>>)
      /\ UNCHANGED <<db, store, clock, pc, local>>

\* ---------------------------------------------------------------- shipments
NoLocal == [payload |-> <<>>, shipment |-> <<>>, event |-> <<>>, writes |-> <<>>]

\* POST /api/shipments, lines 114-129: draw the tracking number, build the
\* Shipment and write it.
book_shipment(r, payload, tracking, ok) ==
  LET shipment == [tracking_number |-> tracking, origin |-> payload.origin,
                   destination |-> payload.destination, mode |-> payload.mode,
                   weight_kg |-> payload.weight_kg,
                   volume_cbm |-> payload.volume_cbm,
                   shipper_name |-> payload.shipper_name,
                   shipper_email |-> payload.shipper_email,
                   status |-> "created", quote_id |-> "None"]
      d == create_document(store, "shipment", shipment)
  IN  /\ pc[r] = "new"
      /\ r > 1 => pc[r - 1] # "new"
      /\ IF ~ShipmentValid(shipment)
         THEN /\ resp' = Response("book_shipment", payload, "ValidationError",
                                  <<>>, 119, <<>>)
              /\ pc' = [pc EXCEPT ![r] = "done"]
              /\ UNCHANGED <<store, local>>
         ELSE IF ~Available(ok)
         THEN /\ resp' = Response("book_shipment", payload,
                                  "StorageUnavailable", <<>>, 129, <<>>)
              /\ pc' = [pc EXCEPT ![r] = "done"]
              /\ UNCHANGED <<store, local>>
         ELSE /\ store' = d.store
              /\ pc' = [pc EXCEPT ![r] = "shipment_written"]
              /\ local' = [local EXCEPT ![r] =
                             [payload |-> payload, shipment |-> shipment,
                              event |-> <<>>,
                              writes |-> <<[collection |-> "shipment",
                                            id |-> d.id]>>]]
              /\ resp' = resp
      /\ UNCHANGED <<db, clock>>

\* The initial event located at the destination instead of the origin.
book_shipment_event_at_destination(r) ==
  /\ pc[r] = "shipment_written"
  /\ pc' = [pc EXCEPT ![r] = "event_built"]
  /\ clock' = clock + 1
  /\ local' = [local EXCEPT ![r].event =
                 [tracking_number |-> local[r].shipment.tracking_number,
                  status |-> "created",
                  location |-> local[r].payload.destination,
                  note |-> "None",
                  timestamp |-> clock']]
  /\ UNCHANGED <<db, store, resp>>

\* The initial event with the status "booked" instead of "created".
book_shipment_event_booked(r) ==
  /\ pc[r] = "shipment_written"
  /\ pc' = [pc EXCEPT ![r] = "event_built"]
  /\ clock' = clock + 1
  /\ local' = [local EXCEPT ![r].event =
                 [tracking_number |-> local[r].shipment.tracking_number,
                  status |-> "booked",
                  location |-> local[r].payload.origin,
                  note |-> "None",
                  timestamp |-> clock']]
  /\ UNCHANGED <<db, store, resp>>

\* Line 131: build the initial TrackingEvent.  Its timestamp is
\* datetime.utcnow(), read here: every reading is later than the one before.
book_shipment_event(r) ==
  /\ pc[r] = "shipment_written"
  /\ pc' = [pc EXCEPT ![r] = "event_built"]
  /\ clock' = clock + 1
  /\ local' = [local EXCEPT ![r].event =
                 [tracking_number |-> local[r].shipment.tracking_number,
                  status |-> "created",
                  location |-> local[r].payload.origin,
                  note |-> "None",
                  timestamp |-> clock']]
  /\ UNCHANGED <<db, store, resp>>

\* Lines 132-133: write the event and return the shipment.
book_shipment_return(r, ok) ==
  LET d == create_document(store, "trackingevent", local[r].event)
  IN  /\ pc[r] = "event_built"
      /\ IF ~Available(ok)
         THEN /\ resp' = Response("book_shipment", local[r].payload,
                                  "StorageUnavailable", <<>>, 132,
                                  local[r].writes)
              /\ store' = store
         ELSE /\ resp' = Response("book_shipment", local[r].payload, "ok",
                                  local[r].shipment, 133,
                                  Append(local[r].writes,
                                         [collection |-> "trackingevent",
                                          id |-> d.id]))
              /\ store' = d.store
      /\ pc' = [pc EXCEPT ![r] = "done"]
      /\ local' = [local EXCEPT ![r] = NoLocal]
      /\ UNCHANGED <<db, clock>>

\* GET /api/shipments?limit=
list_shipments(limit, ok) ==
  /\ IF ~Available(ok)
     THEN resp' = Response("list_shipments", limit, "StorageUnavailable",
                           <<>>, 137, <<>>)
     ELSE resp' = Response("list_shipments", limit, "ok",
                           get_documents(store, "shipment", limit), 138, <<>>)
  /\ UNCHANGED <<db, store, clock, pc, local>>

\* ---------------------------------------------------------- specifications
Limits == {1, DefaultLimit}

\* The one body of SmallRequests per outcome that create_quote is given.
SmallQuoteRequests == { p \in SmallRequests : p.origin = "SHA" }

\* The service: every endpoint, from an empty store, with or without a
\* configured connection.
Init ==
  /\ db \in BOOLEAN
  /\ store = EmptyStore
  /\ clock = 0
  /\ pc = [r \in Bookings |-> "new"]
  /\ local = [r \in Bookings |-> NoLocal]
  /\ resp = NoResponse

Next ==
  \/ read_root
  \/ \E payload \in SmallQuoteRequests, ok \in BOOLEAN : create_quote(payload, ok)
  \/ \E ok \in BOOLEAN : list_quotes(DefaultLimit, ok)
  \/ \E r \in Bookings, payload \in BookRequests, tracking \in TrackingNumbers,
        ok \in BOOLEAN : book_shipment(r, payload, tracking, ok)
  \/ \E r \in Bookings : book_shipment_event(r)
  \/ \E r \in Bookings, ok \in BOOLEAN : book_shipment_return(r, ok)
  \/ \E ok \in BOOLEAN : list_shipments(DefaultLimit, ok)
  \/ \E tracking_number \in TrackingNumbers, ok \in BOOLEAN :
        get_tracking(tracking_number, ok)

Spec == Init /\ [][Next]_vars

\* The quote engine over a wider table of requests.
QuoteNext ==
  \/ read_root
  \/ \E payload \in QuoteRequests, ok \in BOOLEAN : create_quote(payload, ok)
  \/ \E limit \in Limits, ok \in BOOLEAN : list_quotes(limit, ok)

QuoteSpec == Init /\ [][QuoteNext]_vars

\* The tracking query over stores that also hold events written by others:
\* documents are loosely typed and an event may lack its timestamp.
StoredEvents ==
  [tracking_number : TrackingNumbers, status : {"created"},
   location : {"SHA"}, note : {"None"},
   timestamp : {NoTimestamp} \cup (1..MaxStamp)]

TrackInit ==
  /\ db = TRUE
  /\ \E n \in 1..MaxEvents : \E es \in [1..n -> StoredEvents] :
       store = [EmptyStore EXCEPT !["trackingevent"] =
                  [i \in 1..n |-> es[i] @@ [_id |-> i]]]
  /\ clock = 0
  /\ pc = [r \in Bookings |-> "new"]
  /\ local = [r \in Bookings |-> NoLocal]
  /\ resp = NoResponse

TrackNext ==
  \E tracking_number \in TrackingNumbers, ok \in BOOLEAN :
     get_tracking(tracking_number, ok)

TrackSpec == TrackInit /\ [][TrackNext]_vars

\* ------------------------------------------------------------------ claims
\* The request fields the entities constrain (schemas.py) are acceptable.
Acceptable(req) ==
  req.mode \in KnownModes /\ req.weight_kg > 0 /\ req.volume_cbm > 0

\* The price before rounding, in units of 1/10000 USD, for a multiplier
\* given in tenths.
Unrounded(m, weight_kg, volume_cbm) == 500000 + m * (8 * weight_kg + 200 * volume_cbm)

\* cents is x rounded to the nearest cent (an exact tie goes to the even cent).
NearestCent(cents, x) ==
  LET d == 100 * cents - x
  IN  /\ -50 <= d /\ d <= 50
      /\ (d = 50 \/ d = -50) => cents % 2 = 0

TableMultiplier(mode) == IF mode = "sea" THEN 10 ELSE IF mode = "road" THEN 12 ELSE 20

TableEta(mode) == IF mode = "sea" THEN 21 ELSE IF mode = "road" THEN 7 ELSE 3

\* C1: a quote request with mode sea, road or air and positive weight and
\* volume is never rejected as invalid, and the Quote it returns has
\* price_usd = round(50 + multiplier(mode) * (weight_kg*0.8 + volume_cbm*20), 2)
\* with sea=1.0, road=1.2, air=2.0 and eta_days sea=21, road=7, air=3: a
\* function of mode, weight_kg and volume_cbm alone.
C1_QuotePriceAndEta ==
  (resp.op = "create_quote" /\ Acceptable(resp.req)) =>
     /\ resp.status \in {"ok", "StorageUnavailable"}
     /\ resp.status = "ok" =>
          /\ NearestCent(resp.body.price_usd,
                         Unrounded(TableMultiplier(resp.req.mode),
                                   resp.req.weight_kg, resp.req.volume_cbm))
          /\ resp.body.eta_days = TableEta(resp.req.mode)
          /\ resp.body.mode = resp.req.mode

\* A road quote from the second origin whose price needed rounding:
\* 0.01 kg and 0.03 cbm by road is 50.7296, returned as 50.73.
C1_Witness ==
  /\ resp.op = "create_quote" /\ resp.status = "ok"
  /\ resp.req.mode = "road" /\ resp.req.origin = "RTM"
  /\ resp.req.weight_kg = 1 /\ resp.req.volume_cbm = 3
  /\ resp.body.price_usd = 5073

\* C8: a quote request whose mode is none of sea, road, air is quoted with
\* multiplier 1.0 and eta_days 14: price_usd = round(50 + 1.0 *
\* (weight_kg*0.8 + volume_cbm*20), 2) and eta_days = 14.
C8_UnknownModeQuoted ==
  (/\ resp.op = "create_quote"
   /\ resp.req.mode \notin KnownModes
   /\ resp.req.weight_kg > 0 /\ resp.req.volume_cbm > 0
   /\ resp.status # "StorageUnavailable") =>
     /\ resp.status = "ok"
     /\ NearestCent(resp.body.price_usd,
                    Unrounded(10, resp.req.weight_kg, resp.req.volume_cbm))
     /\ resp.body.eta_days = 14

\* The documents of a collection that carry the identifier id.
WithId(collection_name, id) ==
  { i \in DOMAIN store[collection_name] : store[collection_name][i]._id = id }

\* The stored events of a tracking number, by position.
EventsOf(st, t) ==
  { i \in DOMAIN st["trackingevent"] : st["trackingevent"][i].tracking_number = t }

\* C2: a quote or booking request with weight_kg <= 0 or volume_cbm <= 0 is
\* rejected before the price is computed (line 81 of create_quote) and
\* before any document is written.
C2_RejectedBeforeComputation ==
  (/\ resp.op \in {"create_quote", "book_shipment"}
   /\ (resp.req.weight_kg <= 0 \/ resp.req.volume_cbm <= 0)) =>
     /\ resp.status # "ok"
     /\ resp.writes = <<>>
     /\ resp.op = "create_quote" => resp.line < 81

\* C3: a booking that succeeded wrote exactly one Shipment, with status
\* "created", and then exactly one TrackingEvent of the same tracking number,
\* with status "created" and the request's origin as location.
C3_BookingWritesShipmentThenEvent ==
  (resp.op = "book_shipment" /\ resp.status = "ok") =>
     /\ Len(resp.writes) = 2
     /\ resp.writes[1].collection = "shipment"
     /\ resp.writes[2].collection = "trackingevent"
     /\ Cardinality(WithId("shipment", resp.writes[1].id)) = 1
     /\ Cardinality(WithId("trackingevent", resp.writes[2].id)) = 1
     /\ \A i \in WithId("shipment", resp.writes[1].id) :
          /\ store["shipment"][i].status = "created"
          /\ store["shipment"][i].tracking_number = resp.body.tracking_number
          /\ store["shipment"][i].origin = resp.req.origin
     /\ \A i \in WithId("trackingevent", resp.writes[2].id) :
          /\ store["trackingevent"][i].status = "created"
          /\ store["trackingevent"][i].tracking_number = resp.body.tracking_number
          /\ store["trackingevent"][i].location = resp.req.origin
     /\ resp.body.status = "created"

\* Of two concurrent bookings the one that wrote its Shipment first returned
\* last, after the other had written its event.
C3_Witness ==
  /\ resp.op = "book_shipment" /\ resp.status = "ok"
  /\ resp.req.origin = "SHA"
  /\ Len(store["shipment"]) = 2 /\ Len(store["trackingevent"]) = 2
  /\ store["shipment"][1].origin = "SHA"
  /\ store["trackingevent"][1].location = "RTM"

\* C4 as stated: without a store connection every POST /api/quotes and
\* POST /api/shipments fails as service-unavailable and writes nothing, and
\* GET / succeeds.
C4_DegradedAlwaysUnavailable ==
  ~db =>
     /\ resp.op \in {"create_quote", "book_shipment"} =>
          resp.status = "StorageUnavailable" /\ resp.writes = <<>>
     /\ resp.op = "read_root" => resp.status = "ok"
     /\ store = EmptyStore

\* C4 as amended: without a store connection every POST /api/quotes and
\* POST /api/shipments fails and writes nothing; it fails as
\* service-unavailable when its fields satisfy the entity constraints and
\* as a validation error otherwise.  GET / succeeds with the message.
C4_DegradedPostsFail ==
  ~db =>
     /\ resp.op \in {"create_quote", "book_shipment"} =>
          /\ resp.status =
               IF Acceptable(resp.req) THEN "StorageUnavailable"
               ELSE "ValidationError"
          /\ resp.writes = <<>>
     /\ resp.op = "read_root" =>
          resp.status = "ok" /\ resp.body = "LogiFlow backend running"
     /\ store = EmptyStore

\* A well-formed booking was refused for want of a store connection.
C4_Witness ==
  /\ ~db
  /\ resp.op = "book_shipment" /\ Acceptable(resp.req)
  /\ resp.status = "StorageUnavailable"

\* C5: no two persisted Shipments share a tracking_number.
C5_TrackingNumbersUnique ==
  \A i, j \in DOMAIN store["shipment"] :
     i # j => store["shipment"][i].tracking_number
                # store["shipment"][j].tracking_number

IsGetTracking == pc' = pc /\ store' = store /\ resp'.op = "get_tracking"

\* C7 as stated: GET /api/track/{x} returns 404 exactly when the store
\* holds no TrackingEvent with tracking_number = x.
C7_NotFoundIffNoEvent ==
  [][IsGetTracking =>
       (resp'.status = "NotFound" <=> EventsOf(store, resp'.req) = {})]_vars

\* C7 as amended: when the store answers the query, GET /api/track/{x}
\* returns 404 exactly when no TrackingEvent with tracking_number = x is
\* stored, and otherwise returns events of x only; when the connection is
\* absent or the read fails it returns the storage error.  A booking that
\* returned tracking number t has left an event of t in the store, and no
\* step of the service removes a stored document.
C7_NotFoundIffNoEventWhenRead ==
  [][/\ IsGetTracking =>
          /\ resp'.status \in {"ok", "NotFound", "StorageUnavailable"}
          /\ resp'.status # "StorageUnavailable" =>
               (resp'.status = "NotFound" <=> EventsOf(store, resp'.req) = {})
          /\ resp'.status = "ok" =>
               /\ Len(resp'.body.events) = Cardinality(EventsOf(store, resp'.req))
               /\ \A i \in DOMAIN resp'.body.events :
                    resp'.body.events[i].tracking_number = resp'.req
          /\ ~db => resp'.status = "StorageUnavailable"
     /\ (resp'.op = "book_shipment" /\ resp'.status = "ok") =>
          EventsOf(store', resp'.body.tracking_number) # {}
     /\ \A c \in Collections :
          /\ Len(store[c]) <= Len(store'[c])
          /\ SubSeq(store'[c], 1, Len(store[c])) = store[c]]_vars

\* A track of one number answered 404 while the other number has an event.
C7_Witness ==
  /\ resp.op = "get_tracking" /\ resp.status = "NotFound"
  /\ store["trackingevent"] # <<>>
  /\ EventsOf(store, resp.req) = {}

\* C9: when the Shipment write succeeds and the TrackingEvent write fails,
\* the request fails with the storage error, the Shipment stays persisted
\* and is listed by GET /api/shipments, and GET /api/track/{its
\* tracking_number} finds no event (404).
C9_PartialFailureLeavesUntrackedShipment ==
  (resp.op = "book_shipment" /\ resp.line = 132) =>
     /\ resp.status = "StorageUnavailable"
     /\ Len(resp.writes) = 1
     /\ Cardinality(WithId("shipment", resp.writes[1].id)) = 1
     /\ \A i \in WithId("shipment", resp.writes[1].id) :
          /\ i \in DOMAIN get_documents(store, "shipment", DefaultLimit)
          /\ store["shipment"][i].origin = resp.req.origin
          /\ get_documents_by(store, "trackingevent", "tracking_number",
                              store["shipment"][i].tracking_number) = <<>>

GetOps == {"read_root", "list_quotes", "list_shipments", "get_tracking"}

C10_StoreInvariant ==
  /\ \A i \in DOMAIN store["trackingevent"] :
       /\ store["trackingevent"][i].status = "created"
       /\ \E j \in DOMAIN store["shipment"] :
            /\ store["shipment"][j].tracking_number
                 = store["trackingevent"][i].tracking_number
            /\ store["shipment"][j].origin = store["trackingevent"][i].location
  /\ Len(store["trackingevent"]) <= Len(store["shipment"])

\* C10: every persisted TrackingEvent has status "created" and the tracking
\* number of a persisted Shipment whose origin is the event's location;
\* there are never more TrackingEvents than Shipments; and the GET
\* endpoints leave the store as it was.
C10_EventsFollowShipments ==
  /\ []C10_StoreInvariant
  /\ [][(pc' = pc /\ resp'.op \in GetOps) => store' = store]_vars

\* Two bookings are persisted with their events and a listing was served.
C10_Witness ==
  /\ Len(store["shipment"]) = 2 /\ Len(store["trackingevent"]) = 2
  /\ store["shipment"][1].origin # store["shipment"][2].origin
  /\ resp.op = "list_shipments" /\ resp.status = "ok"

\* C6: GET /api/track/{x} raises nothing; it returns the events of x by
\* ascending timestamp when all of them carry one, and in the order of the
\* store query when a timestamp is missing.
C6_SortedOrQueryOrder ==
  (resp.op = "get_tracking" /\ resp.status # "StorageUnavailable") =>
     LET found == get_documents_by(store, "trackingevent", "tracking_number",
                                   resp.req)
     IN  /\ resp.status \in {"ok", "NotFound"}
         /\ resp.status = "ok" =>
              IF \A i \in DOMAIN found : found[i].timestamp # NoTimestamp
              THEN /\ Len(resp.body.events) = Len(found)
                   /\ {resp.body.events[i] : i \in DOMAIN resp.body.events}
                        = {found[i] : i \in DOMAIN found}
                   /\ \A i, j \in DOMAIN resp.body.events :
                        i < j => resp.body.events[i].timestamp
                                   <= resp.body.events[j].timestamp
              ELSE resp.body.events = found

====
